---- MODULE Spec2Model ----
(***************************************************************************)
(* Draw Things MCP bridge: the stdio request handlers (index), the         *)
(* duplicate suppressor, the lifecycle timer and the DrawThingsService     *)
(* generation client, modelled as one event-loop state machine.  Every     *)
(* action is one callback of the Node.js event loop: it runs from one      *)
(* await to the next and is atomic.                                        *)
(***************************************************************************)
EXTENDS Integers, Sequences, FiniteSets, TLC

\* ---------------------------------------------------------------- bounds
MaxLines == 2
MaxTicks == 2

\* ------------------------------------------------------ program constants
REQUEST_HISTORY_LIMIT == 100
PROMPT_HISTORY_EXPIRE_MS == 60000
PROMPT_WINDOW_MS == 2000
EXIT_DELAY_MS == 300000
CONNECTION_TTL_MS == 30000
maxRetries == 3
PROBE_ATTEMPTS == 3
METHOD_NOT_FOUND == 0 - 32601
PARSE_ERROR == 0 - 32700
MAX_SEED == 2147483647
POST_TIMEOUT_MS == 120000
POST_TIMEOUT_STEP_MS == 30000
SAFE_PROMPT_LEN == 30

\* The five status paths checkApiConnection tries on one base URL.
endpoints == << "/sdapi/v1/options", "/sdapi/v1/samplers", "/sdapi/v1/sd-models",
                "/sdapi/v1/prompt-styles", "/" >>

DirectUrl == "http://127.0.0.1:7888"
LocalhostUrl == "http://localhost:7888"
ProxyUrl == "http://localhost:7889"

\* Date.now() when the handlers are installed.
StartNow == 1000

\* ---------------------------------------------------------------- strings
\* A string is a sequence of one-character strings.
LowerChar(c) ==
  CASE c = "A" -> "a"
    [] c = "B" -> "b"
    [] c = "C" -> "c"
    [] OTHER -> c

IsAlnum(c) == c \notin {" ", "-", "_", "{", "}", ":", ".", ","}

RECURSIVE TrimStart(_)
TrimStart(s) == IF Len(s) > 0 /\ Head(s) = " " THEN TrimStart(Tail(s)) ELSE s

RECURSIVE TrimEnd(_)
TrimEnd(s) ==
  IF Len(s) > 0 /\ s[Len(s)] = " " THEN TrimEnd(SubSeq(s, 1, Len(s) - 1)) ELSE s

trim(s) == TrimEnd(TrimStart(s))

toLowerCase(s) == [i \in 1..Len(s) |-> LowerChar(s[i])]

startsWith(s, c) == Len(s) > 0 /\ Head(s) = c

Min(a, b) == IF a < b THEN a ELSE b

\* prompt.substring(0, 30).replace(/[^a-zA-Z0-9]/g, '_')
SafePrompt(p) ==
  [i \in 1..Min(Len(p), SAFE_PROMPT_LEN) |-> IF IsAlnum(p[i]) THEN p[i] ELSE "_"]

\* requestId.includes('retry'): the caller ids of the model that contain it.
\* The ids that are JSON numbers: `requestId.includes` is not a function.
NumericIds == {"7"}
RetryIds == {"retry-x1"}
includesRetry(id) == id \in RetryIds

Has(o, k) == k \in DOMAIN o

\* The record o without key k (delete o[k]).
Without(o, k) == [x \in (DOMAIN o) \ {k} |-> o[x]]

\* The record o with key k set to v (o[k] = v).
With(o, k, v) == [x \in (DOMAIN o) \cup {k} |-> IF x = k THEN v ELSE o[x]]

EmptyObj == [x \in {} |-> 0]

\* ------------------------------------------------------------ input lines
\* A line of standard input: text that JSON.parse rejects (kind "text", its
\* characters in chars) or the serialisation of a JSON object (kind "json",
\* the parsed object in val).
cat == << "c", "a", "t" >>
dog == << "d", "o", "g" >>

TextLine(s) == [kind |-> "text", chars |-> s, val |-> EmptyObj]
JsonLine(v) == [kind |-> "json", chars |-> << >>, val |-> v]

Envelope(id, method, tool, parameters) ==
  JsonLine([jsonrpc |-> "2.0", id |-> id, method |-> method,
            params |-> [tool |-> tool, parameters |-> parameters]])

LineList == <<
  TextLine(<< " ", "A", " ", "b", " " >>),
  TextLine(<< "a", " ", "b" >>),
  TextLine(<< "{", "a" >>),
  TextLine(<< " " >>),
  Envelope("x1", "mcp.invoke", "generateImage", [prompt |-> cat]),
  Envelope("x1", "mcp.invoke", "generateImage", [prompt |-> dog, seed |-> 5]),
  Envelope("h1", "mcp.invoke", "generateImage", [prompt |-> dog, seed |-> 5]),
  Envelope("x1", "mcp.invoke", "doesNotExist", EmptyObj),
  JsonLine([jsonrpc |-> "2.0", id |-> "x3", method |-> "tools/list"]),
  JsonLine([prompt |-> cat, seed |-> 42]),
  JsonLine([parameters |-> [random_string |-> cat]]),
  JsonLine([foo |-> 1]),
  Envelope("x2", "mcp.invoke", "upscale", [prompt |-> cat]),
  Envelope("x4", "mcp.invoke", "generateImage", [prompt |-> cat]),
  Envelope("7", "mcp.invoke", "generateImage", [prompt |-> cat]),
  Envelope("x5", "mcp.invoke", "generateImage", [prompt |-> cat]),
  Envelope("x6", "mcp.invoke", "generateImage", [prompt |-> cat, width |-> 0]),
  Envelope("x7", "mcp.invoke", "generateImage",
           [prompt |-> dog, width |-> 256, style |-> 3]),
  Envelope("x8", "mcp.invoke", "generateImage", [random_string |-> cat])
>>

\* The ids that n requests served before the first modelled line carried,
\* oldest first.
HistoryIds(n) == [i \in 1..n |-> "h" \o ToString(i)]

\* The prompt table after n different prompts, a millisecond apart, the last
\* one at time t; the oldest is the prompt "a b".
HistoryPrompts(n, t) ==
  [i \in 1..n |->
     [prompt |-> IF i = 1 THEN << "a", " ", "b" >> ELSE << "h", ToString(i) >>,
      ts |-> t - (n - i)]]

\* Math.floor(Math.random() * 2147483647) draws one of these.
RandomSeeds == {0, MAX_SEED - 1}

\* images[0] of a 2xx txt2img response: bare base64, or already prefixed.
PngPrefix == "data:image/png;base64,"
ImageStrings == { << "iVBOR" >>, << PngPrefix, "iVBOR" >> }

\* The characters of an image string.  "iVBOR" abbreviates the base64 text
\* iVBORw0K, the first six bytes of a PNG file.
PngPrefixChars ==
  << "d", "a", "t", "a", ":", "i", "m", "a", "g", "e", "/", "p", "n", "g",
     ";", "b", "a", "s", "e", "6", "4", "," >>
PayloadChars == << "i", "V", "B", "O", "R", "w", "0", "K" >>

RECURSIVE Characters(_)
Characters(s) ==
  IF Len(s) = 0 THEN << >>
  ELSE (IF s[1] = PngPrefix THEN PngPrefixChars ELSE PayloadChars)
       \o Characters(Tail(s))

Base64Alphabet ==
  << "A", "B", "C", "D", "E", "F", "G", "H", "I", "J", "K", "L", "M", "N",
     "O", "P", "Q", "R", "S", "T", "U", "V", "W", "X", "Y", "Z",
     "a", "b", "c", "d", "e", "f", "g", "h", "i", "j", "k", "l", "m", "n",
     "o", "p", "q", "r", "s", "t", "u", "v", "w", "x", "y", "z",
     "0", "1", "2", "3", "4", "5", "6", "7", "8", "9", "+", "/" >>

IsBase64Char(c) == \E k \in 1..Len(Base64Alphabet) : Base64Alphabet[k] = c

Base64Value(c) == (CHOOSE k \in 1..Len(Base64Alphabet) : Base64Alphabet[k] = c) - 1

\* Buffer.from(chars, 'base64'): the characters outside the alphabet are
\* skipped, every four of the others give three bytes.
BufferFromBase64(chars) ==
  LET valid == SelectSeq(chars, IsBase64Char)
      Sextet(k) == IF k <= Len(valid) THEN Base64Value(valid[k]) ELSE 0
      Group(g) == Sextet(4 * g + 1) * 262144 + Sextet(4 * g + 2) * 4096
                  + Sextet(4 * g + 3) * 64 + Sextet(4 * g + 4)
      Byte(j) == LET g == (j - 1) \div 3
                     p == (j - 1) % 3
                 IN (Group(g) \div (IF p = 0 THEN 65536 ELSE IF p = 1 THEN 256 ELSE 1))
                    % 256
  IN [j \in 1..((Len(valid) * 6) \div 8) |-> Byte(j)]

\* ------------------------------------------------------------------ state
VARIABLES
  now,                  \* Date.now()
  ticks,                \* clock advances so far
  input,                \* the chunks read from stdin so far
  isPipeMode,
  launch,               \* how the process was started: TTYs and environment
  isProcessing,
  exitDelayTimer,
  processedRequestIds,  \* Set, in insertion order
  processedPrompts,     \* Map prompt -> timestamp, in insertion order
  out,                  \* lines written to stdout
  reqs,                 \* handleImageGeneration invocations
  baseUrl,              \* drawThingsService.baseUrl
  connectionEstablished,
  lastConnectionCheck,
  connectionCheckInProgress,
  connectionRetryTimeout,
  exited                \* process.exit was called

vars == << now, ticks, input, isPipeMode, launch, isProcessing, exitDelayTimer,
           processedRequestIds, processedPrompts, out, reqs, baseUrl,
           connectionEstablished, lastConnectionCheck,
           connectionCheckInProgress, connectionRetryTimeout, exited >>

NoTimer == [armed |-> FALSE, kind |-> "none", due |-> 0]

\* The mutable state one callback works on, as a record.
World ==
  [ ids |-> processedRequestIds, prompts |-> processedPrompts,
    isProcessing |-> isProcessing, timer |-> exitDelayTimer,
    out |-> out, reqs |-> reqs, baseUrl |-> baseUrl,
    est |-> connectionEstablished, last |-> lastConnectionCheck,
    inProgress |-> connectionCheckInProgress,
    retryArmed |-> connectionRetryTimeout ]

Commit(w) ==
  /\ processedRequestIds' = w.ids
  /\ processedPrompts' = w.prompts
  /\ isProcessing' = w.isProcessing
  /\ exitDelayTimer' = w.timer
  /\ out' = w.out
  /\ reqs' = w.reqs
  /\ baseUrl' = w.baseUrl
  /\ connectionEstablished' = w.est
  /\ lastConnectionCheck' = w.last
  /\ connectionCheckInProgress' = w.inProgress
  /\ connectionRetryTimeout' = w.retryArmed

\* ------------------------------------------------------ duplicate tables
InSeq(s, x) == \E i \in 1..Len(s) : s[i] = x

\* The same table with a different eviction victim (the newest entry).
markRequestAsProcessed_evictNewest(ids, requestId) ==
  LET added == IF InSeq(ids, requestId) THEN ids ELSE Append(ids, requestId)
  IN IF Len(added) > REQUEST_HISTORY_LIMIT
       THEN SubSeq(added, 1, Len(added) - 1) ELSE added

\* The same table when the insertion is forgotten.
markRequestAsProcessed_forgets(ids, requestId) == ids

markRequestAsProcessed(ids, requestId) ==
  LET added == IF InSeq(ids, requestId) THEN ids ELSE Append(ids, requestId)
  IN IF Len(added) > REQUEST_HISTORY_LIMIT THEN Tail(added) ELSE added

hasRequestBeenProcessed(ids, requestId) == InSeq(ids, requestId)

\* The table that is never cut back.
limitSize_keepsAll(entries) == entries

\* `if (processedPrompts.size > REQUEST_HISTORY_LIMIT)`: the first key of
\* the map, in insertion order, is deleted.
limitSize(entries) ==
  IF Len(entries) > REQUEST_HISTORY_LIMIT THEN Tail(entries) ELSE entries

PromptIndex(prompts, p) ==
  IF \E i \in 1..Len(prompts) : prompts[i].prompt = p
    THEN CHOOSE i \in 1..Len(prompts) : prompts[i].prompt = p
    ELSE 0

\* isPromptDuplicate(promptContent) at time t; has = FALSE stands for an
\* undefined argument.  Yields the verdict and the table it leaves.
isPromptDuplicate(prompts, has, promptContent, t) ==
  IF ~has \/ Len(promptContent) = 0
    THEN [dup |-> FALSE, prompts |-> prompts]
    ELSE
      LET live == SelectSeq(prompts,
                    LAMBDA e : ~(t - e.ts > PROMPT_HISTORY_EXPIRE_MS))
          normalizedPrompt == toLowerCase(trim(promptContent))
          k == PromptIndex(live, normalizedPrompt)
          lastProcessed == IF k = 0 THEN 0 ELSE live[k].ts
      IN IF lastProcessed # 0 /\ (t - lastProcessed) < PROMPT_WINDOW_MS
           THEN [dup |-> TRUE, prompts |-> live]
           ELSE
             LET entry == [prompt |-> normalizedPrompt, ts |-> t]
                 set == IF k = 0 THEN Append(live, entry)
                                 ELSE [live EXCEPT ![k] = entry]
             IN [dup |-> FALSE, prompts |-> limitSize(set)]

\* ------------------------------------------------------------- lifecycle
\* processComplete that arms the exit timer in either mode.
processComplete_alwaysArms(w, t, pipe) ==
  [w EXCEPT !.isProcessing = FALSE,
            !.timer = [armed |-> TRUE, kind |-> "complete",
                       due |-> t + EXIT_DELAY_MS]]

processComplete(w, t, pipe) ==
  [w EXCEPT !.isProcessing = FALSE,
            !.timer = IF pipe THEN NoTimer
                      ELSE [armed |-> TRUE, kind |-> "complete",
                            due |-> t + EXIT_DELAY_MS]]

\* ---------------------------------------------------------------- output
\* One line on stdout.  cause is the index in input of the chunk whose
\* handling wrote it (0 when written from a later callback).
OutLine(id, form, code, message, ctype, isError, data, text, saved, raw, cause) ==
  [ id |-> id, form |-> form, code |-> code, message |-> message,
    ctype |-> ctype, isError |-> isError, data |-> data, text |-> text,
    saved |-> saved, raw |-> raw, cause |-> cause ]

safeWrite(w, l) == [w EXCEPT !.out = Append(@, l)]

\* sendErrorResponse that falls back to its default id.
sendErrorResponse_defaultId(w, message, errorType, code, id, cause) ==
  safeWrite(w, OutLine("error-0", "error", code, errorType, "", FALSE, << >>,
                       message, << >>, 0, cause))

sendErrorResponse(w, message, errorType, code, id, cause) ==
  safeWrite(w, OutLine(id, "error", code, errorType, "", FALSE, << >>,
                       message, << >>, 0, cause))

\* sendJsonRpcResponse(id, createErrorResponse(text), isError)
sendErrorResult_defaultId(w, id, text, cause) ==
  safeWrite(w, OutLine("error-0", "result", 0, "", "text", TRUE, << >>, text,
                       << >>, 0, cause))

sendErrorResult(w, id, text, cause) ==
  safeWrite(w, OutLine(id, "result", 0, "", "text", TRUE, << >>, text,
                       << >>, 0, cause))

\* sendJsonRpcResponse(id, createImageResponse(imageData) + imageSavedPath)
sendImageResult(w, id, imageData, imagePath, cause) ==
  safeWrite(w, OutLine(id, "result", 0, "", "image", FALSE, imageData, "",
                       imagePath, 0, cause))

\* ------------------------------------------------- generation client
\* services/drawThings/defaultParams.js: the parameters every request
\* starts from.
defaultParams == [prompt |-> << "s", "k", "y" >>, width |-> 512, height |-> 512]

UNAVAILABLE ==
  "Draw Things API is not running or cannot be connected. Please make sure Draw Things is running and the API is enabled."
NO_IMAGES == "No images were generated by the API"
NO_IMAGE_DATA == "No image data returned from generation"
DUPLICATE_SKIPPED == "Duplicate request detected and skipped"
SAVE_FAILED == "Failed to save image"
INTERNAL_ERROR == "Internal error: requestId.includes is not a function"
GENERATED_IMAGE ==
  << "g", "e", "n", "e", "r", "a", "t", "e", "d", "-", "i", "m", "a", "g", "e" >>

\* What one axios.post('/sdapi/v1/txt2img') can end in.  The instance has no
\* validateStatus, so axios rejects every status outside 2xx.
PostOutcomes ==
  {"images", "empty", "http4xx", "http5xx", "ECONNREFUSED", "ETIMEDOUT",
   "ECONNABORTED"}

\* requestError.message
ErrorMessage(o) ==
  CASE o = "http4xx" -> "Request failed with status code 400"
    [] o = "http5xx" -> "Request failed with status code 500"
    [] o = "ECONNREFUSED" -> "connect ECONNREFUSED 127.0.0.1:7888"
    [] o = "ETIMEDOUT" -> "connect ETIMEDOUT 127.0.0.1:7888"
    [] o = "ECONNABORTED" -> "timeout of 150000ms exceeded"
    [] OTHER -> ""

\* lastError.includes('ECONNREFUSED') || lastError.includes('ETIMEDOUT')
IsNetworkMessage(m) ==
  m \in {ErrorMessage("ECONNREFUSED"), ErrorMessage("ETIMEDOUT")}

NoResult == [returned |-> FALSE, isError |-> FALSE, errorMessage |-> "",
             imageData |-> << >>]

\* One invocation of handleImageGeneration(parameters, requestId): where it
\* stands (pc), the locals of the code it is in (stage, ep, attempt, orig and
\* probes, the probes sent to the current base URL, inside the connection
\* block; k and lastError inside the retry loop), and what it did so far
\* (exhausted: the base URLs on which every probe failed; posts: the POSTs
\* issued; postDue: when the pending one times out; clientError: one of
\* them was answered with a 4xx status; allServerErrors: every one answered
\* so far was answered with a 5xx status; emptySeen: one of them was answered
\* 2xx without images;
\* estAtReturn: connectionEstablished when generateImage returned;
\* file: the bytes written to imagePath).
NewReq(id, n, src, passed, userParams, pc) ==
  [ id |-> id, line |-> n, src |-> src, passed |-> passed,
    params |-> userParams, pc |-> pc, verdict |-> "accepted",
    gen |-> FALSE, stage |-> 0, ep |-> 0, attempt |-> 0, orig |-> "",
    probes |-> 0, exhausted |-> 0, merged |-> EmptyObj, k |-> 0,
    posts |-> 0, postDue |-> 0, clientError |-> FALSE,
    allServerErrors |-> TRUE, emptySeen |-> FALSE, postUrl |-> "", lastError |-> "", result |-> NoResult,
    imagePath |-> << >>, file |-> << >>, estAtReturn |-> FALSE ]

\* ImageGenerationParamsSchema.safeParse(inputParams).success
SchemaOk(p) ==
  /\ Has(p, "width") => p.width > 0
  /\ Has(p, "height") => p.height > 0

\* generateImage, parameter resolution: the params object after validation,
\* the random_string rule and the default prompt.
ResolveParams(inputParams) ==
  LET parsed ==
        IF ~SchemaOk(inputParams) THEN EmptyObj
        ELSE IF Cardinality(DOMAIN inputParams) = 1 /\ Has(inputParams, "random_string")
          THEN [prompt |-> inputParams.random_string]
        ELSE IF Has(inputParams, "random_string")
          THEN Without(inputParams, "random_string")
        ELSE inputParams
  IN IF ~Has(parsed, "prompt") \/ Len(parsed.prompt) = 0
       THEN With(parsed, "prompt", defaultParams.prompt)
       ELSE parsed

\* { ...defaultParams, ...params, seed: params.seed ?? random }
MergeParams(params, randomSeed) ==
  LET spread == [x \in (DOMAIN defaultParams) \cup (DOMAIN params) |->
                   IF x \in DOMAIN params THEN params[x] ELSE defaultParams[x]]
  IN With(spread, "seed", IF Has(params, "seed") THEN params.seed ELSE randomSeed)

\* handleImageGeneration after `await drawThingsService.generateImage`.
handleResult(w, i, result, t, pipe) ==
  LET r == w.reqs[i]
      w1 == [w EXCEPT !.reqs[i].result = result, !.reqs[i].estAtReturn = w.est,
                      !.reqs[i].k = 0, !.reqs[i].lastError = "",
                      !.reqs[i].postDue = 0,
                      !.reqs[i].stage = 0, !.reqs[i].ep = 0,
                      !.reqs[i].attempt = 0, !.reqs[i].probes = 0,
                      !.reqs[i].orig = ""]
  IN IF result.isError
       THEN processComplete(
              sendErrorResult([w1 EXCEPT !.reqs[i].pc = "done"], r.id,
                              result.errorMessage, r.line), t, pipe)
     ELSE IF Len(result.imageData) = 0
       THEN processComplete(
              sendErrorResult([w1 EXCEPT !.reqs[i].pc = "done"], r.id,
                              NO_IMAGE_DATA, r.line), t, pipe)
     ELSE
       LET prompt == IF Has(r.params, "prompt") /\ Len(r.params.prompt) > 0
                       THEN r.params.prompt ELSE GENERATED_IMAGE
       IN [w1 EXCEPT !.reqs[i].pc = "save",
                     !.reqs[i].imagePath = << "images", SafePrompt(prompt), ToString(t) >>]

\* saveImage(base64Data, outputPath): the bytes it writes to the file.
saveImage(base64Data) == BufferFromBase64(Characters(base64Data))

\* handleImageGeneration after `await saveImage`, and its finally block.
saveDone(w, i, ok, t, pipe) ==
  LET r == w.reqs[i]
      w1 == [w EXCEPT !.reqs[i].pc = "done"]
  IN IF ok
       THEN processComplete(
              sendImageResult([w1 EXCEPT !.reqs[i].file = saveImage(r.result.imageData)],
                              r.id, r.result.imageData, r.imagePath, r.line),
              t, pipe)
       ELSE processComplete(sendErrorResult(w1, r.id, SAVE_FAILED, r.line), t, pipe)

\* generateImage: the code after the retry loop.
retriesExhausted(w, i, lastError, t, pipe) ==
  LET w1 == IF IsNetworkMessage(lastError) THEN [w EXCEPT !.est = FALSE] ELSE w
  IN handleResult(w1, i,
       [returned |-> TRUE, isError |-> TRUE, errorMessage |-> lastError,
        imageData |-> << >>], t, pipe)

\* generateImage: one pass of the retry loop issues the POST at time t, with
\* timeout 120000 + attempt * 30000.
issuePost(w, i, attempt, t) ==
  [w EXCEPT !.reqs[i].pc = "post", !.reqs[i].k = attempt,
            !.reqs[i].posts = @ + 1, !.reqs[i].postUrl = w.baseUrl,
            !.reqs[i].postDue = t + POST_TIMEOUT_MS + attempt * POST_TIMEOUT_STEP_MS]

\* generateImage: the retry loop goes round again after attempt k
\* (`attempt <= maxRetries` of the for statement, `attempt < maxRetries`
\* before the wait).
mayRetry_offByOne(k) == k <= maxRetries

mayRetry(k) == k < maxRetries

\* The test that takes every failed attempt for a connection error.
isConnectionError_anyFailure(o) == o \notin {"images", "empty"}

\* `error.code === 'ECONNREFUSED' || error.code === 'ETIMEDOUT'`
isConnectionError(o) == o \in {"ECONNREFUSED", "ETIMEDOUT"}

\* generateImage: the continuation of `await this.axios.post(...)`.
postDone(w, i, o, image, t, pipe) ==
  LET r == w.reqs[i]
      w0 == [w EXCEPT !.reqs[i].allServerErrors = (@ /\ o = "http5xx"),
                      !.reqs[i].emptySeen = (@ \/ o = "empty")]
  IN IF o = "images"
       THEN handleResult([w0 EXCEPT !.est = TRUE, !.last = t], i,
              [returned |-> TRUE, isError |-> FALSE, errorMessage |-> "",
               imageData |-> IF startsWith(image, PngPrefix) THEN image
                             ELSE << PngPrefix >> \o image], t, pipe)
     ELSE IF o = "empty"
       THEN IF mayRetry(r.k)
              THEN issuePost([w0 EXCEPT !.reqs[i].lastError = NO_IMAGES], i, r.k + 1, t)
              ELSE retriesExhausted([w0 EXCEPT !.reqs[i].lastError = NO_IMAGES],
                                    i, NO_IMAGES, t, pipe)
     ELSE
       LET w1 == [w0 EXCEPT !.reqs[i].lastError = ErrorMessage(o),
                           !.reqs[i].clientError = (@ \/ o = "http4xx"),
                           !.est = IF isConnectionError(o) THEN FALSE ELSE @]
       IN IF mayRetry(r.k)
            THEN [w1 EXCEPT !.reqs[i].pc = "postwait", !.reqs[i].postDue = 0]
            ELSE retriesExhausted(w1, i, ErrorMessage(o), t, pipe)

\* generateImage from parameter resolution to the first POST.
afterConnection(w, i, t, randomSeed) ==
  issuePost([w EXCEPT !.reqs[i].merged =
                 MergeParams(ResolveParams(w.reqs[i].params), randomSeed),
               !.reqs[i].stage = 0, !.reqs[i].ep = 0, !.reqs[i].attempt = 0,
               !.reqs[i].probes = 0, !.reqs[i].orig = ""], i, 1, t)

\* generateImage that goes on to the POST when no candidate answered.
serviceUnavailable_postsAnyway(w, i, t, pipe) ==
  issuePost([w EXCEPT !.reqs[i].merged = MergeParams(ResolveParams(w.reqs[i].params), 0)],
            i, 1, t)

\* generateImage: no candidate answered.
serviceUnavailable(w, i, t, pipe) ==
  handleResult([w EXCEPT !.baseUrl = w.reqs[i].orig], i,
    [returned |-> TRUE, isError |-> TRUE, errorMessage |-> UNAVAILABLE,
     imageData |-> << >>], t, pipe)

RECURSIVE checkApiConnection(_, _, _, _, _, _)
RECURSIVE afterCheck(_, _, _, _, _, _, _)

\* generateImage after `isConnected = await this.checkApiConnection()` on
\* candidate number stage (1: 127.0.0.1, 2: localhost).
afterCheck(w, i, stage, isConnected, t, pipe, randomSeed) ==
  IF isConnected THEN afterConnection(w, i, t, randomSeed)
  ELSE IF stage = 1
    THEN checkApiConnection([w EXCEPT !.baseUrl = LocalhostUrl], i, 2, t, pipe, randomSeed)
  ELSE serviceUnavailable(w, i, t, pipe)

\* checkApiConnection up to its first await.
checkApiConnection(w, i, stage, t, pipe, randomSeed) ==
  IF w.inProgress
    THEN [w EXCEPT !.reqs[i].pc = "ccwait", !.reqs[i].stage = stage]
  ELSE IF w.est /\ t - w.last < CONNECTION_TTL_MS
    THEN afterCheck(w, i, stage, TRUE, t, pipe, randomSeed)
  ELSE [w EXCEPT !.inProgress = TRUE, !.retryArmed = FALSE,
                 !.reqs[i].pc = "probe", !.reqs[i].stage = stage,
                 !.reqs[i].ep = 1, !.reqs[i].attempt = 1,
                 !.reqs[i].probes = 1]

\* checkApiConnection: the continuation of one probe `await this.axios.get`.
probeDone(w, i, answered, t, pipe, randomSeed) ==
  LET r == w.reqs[i]
  IN IF answered
       THEN afterCheck([w EXCEPT !.est = TRUE, !.last = t, !.inProgress = FALSE],
                       i, r.stage, TRUE, t, pipe, randomSeed)
     ELSE IF r.attempt < PROBE_ATTEMPTS
       THEN [w EXCEPT !.reqs[i].pc = "backoff"]
     ELSE IF r.ep < Len(endpoints)
       THEN [w EXCEPT !.reqs[i].ep = r.ep + 1, !.reqs[i].attempt = 1,
                      !.reqs[i].probes = @ + 1]
     ELSE afterCheck([w EXCEPT !.est = FALSE, !.inProgress = FALSE,
                               !.retryArmed = TRUE,
                               !.reqs[i].exhausted = @ + 1],
                     i, r.stage, FALSE, t, pipe, randomSeed)

\* generateImage up to its first await.
generateImage(w, i, t, pipe, randomSeed) ==
  LET w1 == [w EXCEPT !.reqs[i].gen = TRUE]
  IN IF ~w1.est
       THEN checkApiConnection([w1 EXCEPT !.reqs[i].orig = w.baseUrl,
                                          !.baseUrl = DirectUrl],
                               i, 1, t, pipe, randomSeed)
       ELSE afterConnection(w1, i, t, randomSeed)

\* ---------------------------------------------------------------- bridge
\* handleImageGeneration that passes the bag on as it came.
promoteRandomString_never(userParams) == userParams

\* `if (userParams.random_string && Object.keys(userParams).length === 1)`:
\* the value moves to the key prompt and the key random_string is deleted.
promoteRandomString(userParams) ==
  IF Has(userParams, "random_string") /\ Len(userParams.random_string) > 0
     /\ Cardinality(DOMAIN userParams) = 1
    THEN Without(With(userParams, "prompt", userParams.random_string),
                 "random_string")
    ELSE userParams

\* handleImageGeneration(parameters, requestId) up to its first await, called
\* while chunk n is handled.  hasParams = FALSE stands for undefined.
handleImageGeneration(w, n, src, hasParams, parameters, requestId, t, pipe, randomSeed) ==
  LET passed == IF hasParams THEN parameters ELSE EmptyObj
  IN IF hasRequestBeenProcessed(w.ids, requestId)
       THEN [w EXCEPT !.reqs = Append(@,
               [NewReq(requestId, n, src, passed, passed, "skipped")
                  EXCEPT !.verdict = "duplicate_id"])]
     ELSE
       LET userParams == promoteRandomString(passed)
           checked == Cardinality(DOMAIN userParams) <= 1
           d == IF checked
                  THEN isPromptDuplicate(w.prompts, Has(userParams, "prompt"),
                         IF Has(userParams, "prompt") THEN userParams.prompt ELSE << >>, t)
                  ELSE [dup |-> FALSE, prompts |-> w.prompts]
           w1 == [w EXCEPT !.ids = markRequestAsProcessed(@, requestId),
                           !.isProcessing = TRUE,
                           !.prompts = d.prompts,
                           !.reqs = Append(@, NewReq(requestId, n, src, passed,
                                                     userParams, "start"))]
           i == Len(w1.reqs)
       IN IF checked /\ d.dup /\ requestId \in NumericIds
            THEN processComplete(
                   sendErrorResult([w1 EXCEPT !.reqs[i].pc = "done"],
                                   requestId, INTERNAL_ERROR, n), t, pipe)
          ELSE IF checked /\ d.dup /\ ~includesRetry(requestId)
            THEN processComplete(
                   sendErrorResult([w1 EXCEPT !.reqs[i].pc = "done",
                                              !.reqs[i].verdict = "duplicate_prompt"],
                                   requestId, DUPLICATE_SKIPPED, n), t, pipe)
            ELSE generateImage(w1, i, t, pipe, randomSeed)

\* processRequest(request) for a parsed JSON object; ok = FALSE is null.
processRequest(request, t) ==
  LET r1 == IF Has(request, "jsonrpc") /\ request.jsonrpc # "" THEN request
            ELSE With(request, "jsonrpc", "2.0")
      r2 == IF Has(r1, "id") /\ r1.id # "" THEN r1 ELSE With(r1, "id", ToString(t))
      r3 == IF Has(r2, "method") /\ r2.method # "" THEN r2
            ELSE With(r2, "method", "mcp.invoke")
      hasPrompt == Has(r3, "prompt") /\ Len(r3.prompt) > 0
  IN IF Has(r3, "params") THEN [ok |-> TRUE, request |-> r3]
     ELSE IF hasPrompt \/ Has(r3, "parameters")
       THEN [ok |-> TRUE,
             request |-> With(r3, "params",
               [tool |-> "generateImage",
                parameters |-> IF hasPrompt THEN [prompt |-> r3.prompt]
                               ELSE r3.parameters])]
     ELSE [ok |-> FALSE, request |-> r3]

\* The request the 'line' handler builds from a plain-text line.
plainTextRequest_untrimmed(chars, t) ==
  [jsonrpc |-> "2.0", id |-> ToString(t), method |-> "mcp.invoke",
   params |-> [tool |-> "generateImage", parameters |-> [prompt |-> chars]]]

plainTextRequest(chars, t) ==
  [jsonrpc |-> "2.0", id |-> ToString(t), method |-> "mcp.invoke",
   params |-> [tool |-> "generateImage", parameters |-> [prompt |-> trim(chars)]]]

IsBlank(line) == line.kind = "text" /\ Len(trim(line.chars)) = 0

IsEnvelope(j) ==
  /\ Has(j, "jsonrpc") /\ j.jsonrpc = "2.0"
  /\ Has(j, "method") /\ j.method # ""
  /\ Has(j, "id") /\ j.id # ""

IsToolInvocation(j) ==
  /\ Has(j, "method") /\ j.method = "mcp.invoke"
  /\ Has(j, "params") /\ Has(j.params, "tool") /\ j.params.tool # ""

RawLine(k, n) == OutLine("", "raw", 0, "", "", FALSE, << >>, "", << >>, k, n)

\* rl.on('line'): chunk n carries LineList[k].
rlLine(w, n, k, t, pipe, randomSeed) ==
  LET line == LineList[k]
      j == line.val
      w0 == [w EXCEPT !.isProcessing = TRUE, !.timer = NoTimer]
  IN IF IsBlank(line) THEN w
     ELSE IF line.kind = "json"
       THEN IF IsEnvelope(j)
              THEN IF IsToolInvocation(j)
                     THEN IF j.params.tool = "generateImage"
                            THEN handleImageGeneration(w0, n, "line",
                                   Has(j.params, "parameters"),
                                   IF Has(j.params, "parameters")
                                     THEN j.params.parameters ELSE EmptyObj,
                                   j.id, t, pipe, randomSeed)
                            ELSE processComplete(
                                   sendErrorResponse(w0, "Tool not found",
                                     "method_not_found", METHOD_NOT_FOUND, j.id, n),
                                   t, pipe)
                     ELSE processComplete(safeWrite(w0, RawLine(k, n)), t, pipe)
            ELSE
              LET p == processRequest(j, t)
                  q == p.request
              IN IF ~p.ok THEN processComplete(w0, t, pipe)
                 ELSE IF q.method = "mcp.invoke" /\ Has(q.params, "tool")
                         /\ q.params.tool = "generateImage"
                   THEN handleImageGeneration(w0, n, "line",
                          Has(q.params, "parameters"),
                          IF Has(q.params, "parameters")
                            THEN q.params.parameters ELSE EmptyObj,
                          q.id, t, pipe, randomSeed)
                 ELSE processComplete(safeWrite(w0, RawLine(k, n)), t, pipe)
     ELSE IF ~startsWith(line.chars, "{")
       THEN LET d == isPromptDuplicate(w0.prompts, TRUE, trim(line.chars), t)
                w1 == [w0 EXCEPT !.prompts = d.prompts]
            IN IF d.dup THEN processComplete(w1, t, pipe)
               ELSE LET request == plainTextRequest(line.chars, t)
                    IN handleImageGeneration(w1, n, "line", TRUE,
                         request.params.parameters, request.id, t, pipe, randomSeed)
     ELSE processComplete(
            sendErrorResponse(w0, "Unrecognized input format", "parse_error",
                              PARSE_ERROR, "error-" \o ToString(t), n),
            t, pipe)

\* The 'data' handler that forwards what is not a tool invocation, as the
\* 'line' handler does.
stdinData_forwards(w, n, k, t, pipe, randomSeed) ==
  LET line == LineList[k]
      j == line.val
      w0 == [w EXCEPT !.isProcessing = TRUE, !.timer = NoTimer]
      id == IF Has(j, "id") THEN j.id ELSE "error-" \o ToString(t)
  IN IF IsBlank(line) THEN w
     ELSE IF line.kind # "json" THEN w0
     ELSE IF IsToolInvocation(j)
       THEN IF j.params.tool = "generateImage"
              THEN handleImageGeneration(w0, n, "data",
                     Has(j.params, "parameters"),
                     IF Has(j.params, "parameters")
                       THEN j.params.parameters ELSE EmptyObj,
                     j.id, t, pipe, randomSeed)
              ELSE processComplete(
                     sendErrorResponse(w0, "Tool not found", "method_not_found",
                                       METHOD_NOT_FOUND, id, n), t, pipe)
     ELSE processComplete(safeWrite(w0, RawLine(k, n)), t, pipe)

\* process.stdin.on('data') for a chunk that holds the single line
\* LineList[k]; it runs after readline has emitted 'line' for the chunk.
stdinData(w, n, k, t, pipe, randomSeed) ==
  LET line == LineList[k]
      j == line.val
      w0 == [w EXCEPT !.isProcessing = TRUE, !.timer = NoTimer]
      id == IF Has(j, "id") THEN j.id ELSE "error-" \o ToString(t)
  IN IF IsBlank(line) THEN w
     ELSE IF line.kind # "json" THEN w0
     ELSE IF IsToolInvocation(j)
       THEN IF j.params.tool = "generateImage"
              THEN handleImageGeneration(w0, n, "data",
                     Has(j.params, "parameters"),
                     IF Has(j.params, "parameters")
                       THEN j.params.parameters ELSE EmptyObj,
                     j.id, t, pipe, randomSeed)
              ELSE processComplete(
                     sendErrorResponse(w0, "Tool not found", "method_not_found",
                                       METHOD_NOT_FOUND, id, n), t, pipe)
     ELSE processComplete(w0, t, pipe)

\* ------------------------------------------------------------------ launch
\* The ways the process is started: each standard stream a terminal or not,
\* DRAW_THINGS_FORCE_STAY_ALIVE "true" or not.
Launches ==
  [stdinIsTTY : BOOLEAN, stdoutIsTTY : BOOLEAN, forceStayAlive : BOOLEAN]

\* isPipeMode = !process.stdin.isTTY || !process.stdout.isTTY, then true
\* under DRAW_THINGS_FORCE_STAY_ALIVE === 'true'.
detectPipeMode(l) ==
  IF l.forceStayAlive THEN TRUE ELSE ~l.stdinIsTTY \/ ~l.stdoutIsTTY

\* ----------------------------------------------------------------- Init
\* The state when main() has installed the handlers: the startup connection
\* check has either succeeded or failed (and scheduled its background
\* retry), and in standalone mode the initial exit timer is armed.
Init ==
  /\ now = StartNow
  /\ ticks = 0
  /\ input = << >>
  /\ isPipeMode \in BOOLEAN
  /\ launch = [stdinIsTTY |-> ~isPipeMode, stdoutIsTTY |-> ~isPipeMode,
               forceStayAlive |-> FALSE]
  /\ isProcessing = FALSE
  /\ exitDelayTimer = IF isPipeMode THEN NoTimer
                       ELSE [armed |-> TRUE, kind |-> "initial",
                             due |-> StartNow + EXIT_DELAY_MS]
  /\ processedRequestIds \in {HistoryIds(0), HistoryIds(REQUEST_HISTORY_LIMIT)}
  /\ processedPrompts = << >>
  /\ out = << >>
  /\ reqs = << >>
  /\ connectionEstablished \in BOOLEAN
  /\ baseUrl \in IF connectionEstablished THEN {DirectUrl, ProxyUrl} ELSE {ProxyUrl}
  /\ lastConnectionCheck = IF connectionEstablished THEN StartNow ELSE 0
  /\ connectionCheckInProgress = FALSE
  /\ connectionRetryTimeout = ~connectionEstablished
  /\ exited = FALSE

\* ---------------------------------------------------------------- actions
\* A chunk with one line arrives on stdin: readline emits 'line', then the
\* raw 'data' listener sees the same bytes.
StdinSingleLine(k, s1, s2, maxLines) ==
  /\ ~exited
  /\ Len(input) < maxLines
  /\ LET n == Len(input) + 1
     IN /\ input' = Append(input, [line |-> k, at |-> now, alone |-> TRUE])
        /\ Commit(stdinData(rlLine(World, n, k, now, isPipeMode, s1),
                            n, k, now, isPipeMode, s2))
  /\ UNCHANGED << now, ticks, isPipeMode, launch, exited >>

\* A line arrives inside a chunk that holds several lines: the 'data'
\* listener returns at once (data.includes('\n')).
StdinLineOfMany(k, s1, maxLines) ==
  /\ ~exited
  /\ Len(input) < maxLines
  /\ LET n == Len(input) + 1
     IN /\ input' = Append(input, [line |-> k, at |-> now, alone |-> FALSE])
        /\ Commit(rlLine(World, n, k, now, isPipeMode, s1))
  /\ UNCHANGED << now, ticks, isPipeMode, launch, exited >>

Step(w) ==
  /\ Commit(w)
  /\ UNCHANGED << now, ticks, input, isPipeMode, launch, exited >>

At(i, pc) == i \in 1..Len(reqs) /\ reqs[i].pc = pc /\ ~exited

ProbeAnswered(i, s) ==
  /\ At(i, "probe")
  /\ Step(probeDone(World, i, TRUE, now, isPipeMode, s))

ProbeFailed(i) ==
  /\ At(i, "probe")
  /\ Step(probeDone(World, i, FALSE, now, isPipeMode, 0))

\* The backoff sleep after a failed probe attempt is over.
ProbeBackoffOver(i) ==
  /\ At(i, "backoff")
  /\ Step([World EXCEPT !.reqs[i].pc = "probe", !.reqs[i].attempt = @ + 1,
                         !.reqs[i].probes = @ + 1])

\* The one-second wait for a connection check in progress is over.
CheckWaitOver(i, s) ==
  /\ At(i, "ccwait")
  /\ Step(afterCheck(World, i, reqs[i].stage, connectionEstablished, now,
                     isPipeMode, s))

PostCompleted(i, o, image) ==
  /\ At(i, "post")
  /\ Step(postDone(World, i, o, image, now, isPipeMode))

\* The sleep before the next POST attempt is over.
RetryWaitOver(i) ==
  /\ At(i, "postwait")
  /\ Step(issuePost(World, i, reqs[i].k + 1, now))

SaveCompleted(i, ok) ==
  /\ At(i, "save")
  /\ Step(saveDone(World, i, ok, now, isPipeMode))

\* The exit timer's callback.
ExitTimerFires ==
  /\ ~exited
  /\ exitDelayTimer.armed
  /\ now >= exitDelayTimer.due
  /\ exitDelayTimer' = NoTimer
  /\ exited' = (exitDelayTimer.kind = "complete" \/ ~isProcessing)
  /\ UNCHANGED << now, ticks, input, isPipeMode, launch, isProcessing,
                  processedRequestIds, processedPrompts, out, reqs, baseUrl,
                  connectionEstablished, lastConnectionCheck,
                  connectionCheckInProgress, connectionRetryTimeout >>

\* Time passes; a timer that is due fires before time passes further, and a
\* pending POST is over by its timeout.
Tick(d) ==
  /\ ~exited
  /\ ticks < MaxTicks
  /\ ~(exitDelayTimer.armed /\ now >= exitDelayTimer.due)
  /\ \A i \in 1..Len(reqs) : reqs[i].pc = "post" => now + d <= reqs[i].postDue
  /\ now' = now + d
  /\ ticks' = ticks + 1
  /\ UNCHANGED << input, isPipeMode, launch, isProcessing, exitDelayTimer,
                  processedRequestIds, processedPrompts, out, reqs, baseUrl,
                  connectionEstablished, lastConnectionCheck,
                  connectionCheckInProgress, connectionRetryTimeout, exited >>

Slots == 1..(2 * MaxLines)

\* The callbacks of the generation client and of the response emitter.
ServiceNext(Seeds, Images, Outcomes) ==
  \/ \E i \in Slots, s \in Seeds : ProbeAnswered(i, s)
  \/ \E i \in Slots : ProbeFailed(i)
  \/ \E i \in Slots : ProbeBackoffOver(i)
  \/ \E i \in Slots, s \in Seeds : CheckWaitOver(i, s)
  \/ \E i \in Slots, o \in Outcomes, image \in Images : PostCompleted(i, o, image)
  \/ \E i \in Slots : RetryWaitOver(i)
  \/ \E i \in Slots, ok \in BOOLEAN : SaveCompleted(i, ok)

\* Two generate() calls, possibly concurrent: every outcome of every probe,
\* POST and save.
ServiceLines == 2
InitService == Init /\ isPipeMode /\ processedRequestIds = << >>
NextService ==
  \/ \E k \in {5, 7} : StdinLineOfMany(k, MAX_SEED - 1, ServiceLines)
  \/ ServiceNext({MAX_SEED - 1}, ImageStrings, PostOutcomes)
SpecService == InitService /\ [][NextService]_vars

\* Envelopes that share or reuse correlation ids, on a full id table and a
\* backend that answers.
IdLines == {5, 6, 7}
InitIds ==
  /\ Init
  /\ processedRequestIds = HistoryIds(REQUEST_HISTORY_LIMIT)
  /\ connectionEstablished
  /\ baseUrl = DirectUrl
NextIds ==
  \/ \E k \in IdLines : StdinSingleLine(k, 0, 0, MaxLines)
  \/ \E k \in IdLines : StdinLineOfMany(k, 0, MaxLines)
  \/ \E i \in Slots, o \in {"images", "http5xx"} :
       PostCompleted(i, o, << "iVBOR" >>)
  \/ \E i \in Slots : RetryWaitOver(i)
  \/ \E i \in Slots, ok \in BOOLEAN : SaveCompleted(i, ok)
SpecIds == InitIds /\ [][NextIds]_vars

\* Plain-text lines, the same prompt again after 500 ms or after 3 s, beside
\* an envelope, on a backend that answers.
TextLines == {1, 2, 3, 5}
InitText ==
  /\ Init
  /\ processedRequestIds = << >>
  /\ connectionEstablished
  /\ baseUrl = DirectUrl
NextText ==
  \/ \E k \in TextLines : StdinSingleLine(k, 0, 0, MaxLines)
  \/ \E k \in TextLines : StdinLineOfMany(k, 0, MaxLines)
  \/ \E i \in Slots, image \in ImageStrings : PostCompleted(i, "images", image)
  \/ \E i \in Slots, ok \in BOOLEAN : SaveCompleted(i, ok)
  \/ \E d \in {500, 3000} : Tick(d)
SpecText == InitText /\ [][NextText]_vars

\* Loose JSON objects and envelopes that are not generateImage invocations,
\* on a backend that answers.
LooseLines == {8, 9, 10, 11, 12, 13}
InitLoose ==
  /\ Init
  /\ processedRequestIds = << >>
  /\ connectionEstablished
  /\ baseUrl = DirectUrl
NextLoose ==
  \/ \E k \in LooseLines, s1, s2 \in RandomSeeds : StdinSingleLine(k, s1, s2, MaxLines)
  \/ \E k \in LooseLines, s1 \in RandomSeeds : StdinLineOfMany(k, s1, MaxLines)
  \/ \E i \in Slots, o \in {"images", "empty"} : PostCompleted(i, o, << "iVBOR" >>)
  \/ \E i \in Slots, ok \in BOOLEAN : SaveCompleted(i, ok)
SpecLoose == InitLoose /\ [][NextLoose]_vars

\* Standalone mode: requests in flight while the exit timer runs, on a
\* backend that answers or lets the POST time out; the clock advances by the
\* first POST's timeout, twice to reach the exit delay.
LifecycleLines == {5, 10}
InitLifecycle ==
  /\ Init
  /\ ~isPipeMode
  /\ processedRequestIds = << >>
  /\ connectionEstablished
  /\ baseUrl = DirectUrl
NextLifecycle ==
  \/ \E k \in LifecycleLines : StdinSingleLine(k, 0, 0, MaxLines)
  \/ \E k \in LifecycleLines : StdinLineOfMany(k, 0, MaxLines)
  \/ \E i \in Slots, o \in {"images", "ECONNABORTED"} :
       PostCompleted(i, o, << "iVBOR" >>)
  \/ \E i \in Slots : RetryWaitOver(i)
  \/ \E i \in Slots, ok \in BOOLEAN : SaveCompleted(i, ok)
  \/ ExitTimerFires
  \/ Tick(POST_TIMEOUT_MS + POST_TIMEOUT_STEP_MS)
SpecLifecycle == InitLifecycle /\ [][NextLifecycle]_vars

\* Two generate() calls, possibly concurrent, on a connection that is
\* established: the POST is answered with images, without images, with a 5xx
\* status, or times out.
RetryOutcomes == {"images", "empty", "http5xx", "ECONNABORTED"}
InitRetry ==
  /\ Init
  /\ isPipeMode
  /\ processedRequestIds = << >>
  /\ connectionEstablished
  /\ baseUrl = DirectUrl
NextRetry ==
  \/ \E k \in {5, 7} : StdinLineOfMany(k, MAX_SEED - 1, ServiceLines)
  \/ \E i \in Slots, o \in RetryOutcomes, image \in ImageStrings :
       PostCompleted(i, o, image)
  \/ \E i \in Slots : RetryWaitOver(i)
  \/ \E i \in Slots, ok \in BOOLEAN : SaveCompleted(i, ok)
SpecRetry == InitRetry /\ [][NextRetry]_vars

\* Envelopes that repeat a correlation id or, under another id, a prompt,
\* 500 ms or 3 s apart, on a backend that answers.
DupLines == {5, 14}
NextDup ==
  \/ \E k \in DupLines : StdinSingleLine(k, 0, 0, MaxLines)
  \/ \E k \in DupLines : StdinLineOfMany(k, 0, MaxLines)
  \/ \E i \in Slots, image \in ImageStrings : PostCompleted(i, "images", image)
  \/ \E i \in Slots, ok \in BOOLEAN : SaveCompleted(i, ok)
  \/ \E d \in {500, 3000} : Tick(d)
SpecDup == InitText /\ [][NextDup]_vars

\* Either mode: two generateImage envelopes with different ids and prompts
\* and an envelope for an unknown tool, on a backend that answers or lets
\* the POST time out, while the clock runs to the exit delay.
ModeLines == {5, 7, 13}
InitModes ==
  /\ Init
  /\ processedRequestIds = << >>
  /\ connectionEstablished
  /\ baseUrl = DirectUrl
NextModes ==
  \/ \E k \in ModeLines : StdinSingleLine(k, 0, 0, MaxLines)
  \/ \E k \in ModeLines : StdinLineOfMany(k, 0, MaxLines)
  \/ \E i \in Slots, o \in {"images", "ECONNABORTED"} :
       PostCompleted(i, o, << "iVBOR" >>)
  \/ \E i \in Slots : RetryWaitOver(i)
  \/ \E i \in Slots, ok \in BOOLEAN : SaveCompleted(i, ok)
  \/ ExitTimerFires
  \/ Tick(POST_TIMEOUT_MS + POST_TIMEOUT_STEP_MS)
SpecModes == InitModes /\ [][NextModes]_vars

\* Lines with and without a correlation id of their own: envelopes (one
\* with a numeric id), an unknown tool, plain text and an unparsable line,
\* on a backend that answers with or without images.
CorrelationLines == {2, 3, 5, 8, 15}
NextCorrelation ==
  \/ \E k \in CorrelationLines : StdinSingleLine(k, 0, 0, MaxLines)
  \/ \E k \in CorrelationLines : StdinLineOfMany(k, 0, MaxLines)
  \/ \E i \in Slots, o \in {"images", "empty"} : PostCompleted(i, o, << "iVBOR" >>)
  \/ \E i \in Slots, ok \in BOOLEAN : SaveCompleted(i, ok)
  \/ Tick(500)
SpecCorrelation == InitText /\ [][NextCorrelation]_vars

\* Both tables full: a plain-text prompt that is the oldest entry of the
\* prompt table, and envelopes with new ids and prompts, 500 ms or 3 s apart.
TableLines == {2, 5, 14}
InitTable ==
  /\ now = StartNow
  /\ ticks = 0
  /\ input = << >>
  /\ isPipeMode = TRUE
  /\ launch = [stdinIsTTY |-> FALSE, stdoutIsTTY |-> FALSE,
               forceStayAlive |-> FALSE]
  /\ isProcessing = FALSE
  /\ exitDelayTimer = NoTimer
  /\ processedRequestIds = HistoryIds(REQUEST_HISTORY_LIMIT)
  /\ processedPrompts \in {HistoryPrompts(REQUEST_HISTORY_LIMIT, StartNow),
                            HistoryPrompts(REQUEST_HISTORY_LIMIT - 1, StartNow)}
  /\ out = << >>
  /\ reqs = << >>
  /\ connectionEstablished = TRUE
  /\ baseUrl = DirectUrl
  /\ lastConnectionCheck = StartNow
  /\ connectionCheckInProgress = FALSE
  /\ connectionRetryTimeout = FALSE
  /\ exited = FALSE
NextTable ==
  \/ \E k \in TableLines : StdinSingleLine(k, 0, 0, MaxLines)
  \/ \E k \in TableLines : StdinLineOfMany(k, 0, MaxLines)
  \/ \E i \in Slots : PostCompleted(i, "images", << "iVBOR" >>)
  \/ \E i \in Slots, ok \in BOOLEAN : SaveCompleted(i, ok)
  \/ \E d \in {500, 3000} : Tick(d)
SpecTable == InitTable /\ [][NextTable]_vars

\* Up to three envelopes with different ids and the same prompt, 1.5 s
\* apart, on a backend that answers.
WindowLines == 3
\* A line that was not read before arrives inside a chunk of several lines.
StdinNewLineOfMany(k, maxLines) ==
  /\ \A m \in 1..Len(input) : input[m].line # k
  /\ StdinLineOfMany(k, 0, maxLines)
WindowStep == 1500
NextWindow ==
  \/ \E k \in {5, 14, 16} : StdinNewLineOfMany(k, WindowLines)
  \/ \E i \in Slots : PostCompleted(i, "images", << "iVBOR" >>)
  \/ \E i \in Slots : SaveCompleted(i, TRUE)
  \/ Tick(WindowStep)
SpecWindow == InitText /\ [][NextWindow]_vars

\* Two envelopes with different ids: the same prompt alone, or the same
\* prompt beside a seed, at once or 1.5 s apart.
NextParams ==
  \/ \E k \in {6, 7, 14, 16} : StdinSingleLine(k, 0, 0, MaxLines)
  \/ \E k \in {6, 7, 14, 16} : StdinLineOfMany(k, 0, MaxLines)
  \/ \E i \in Slots : PostCompleted(i, "images", << "iVBOR" >>)
  \/ \E i \in Slots, ok \in BOOLEAN : SaveCompleted(i, ok)
  \/ Tick(WindowStep)
SpecParams == InitText /\ [][NextParams]_vars

\* Two generate() calls, the second after the first has returned, with the
\* connection established or not at the start, every outcome of every probe
\* and POST, and the clock advancing by the connection TTL.
StdinAfterReturn(k, s1, maxLines) ==
  /\ \A i \in 1..Len(reqs) : reqs[i].pc \in {"done", "skipped"}
  /\ \A m \in 1..Len(input) : input[m].line # k
  /\ StdinLineOfMany(k, s1, maxLines)
\* Time passes while no call is in flight.
TickIdle(d) ==
  /\ \A i \in 1..Len(reqs) : reqs[i].pc \in {"done", "skipped"}
  /\ Tick(d)
ConnectionOutcomes ==
  {"images", "http5xx", "ECONNREFUSED", "ETIMEDOUT", "ECONNABORTED"}
NextConnection ==
  \/ \E k \in {5, 7} : StdinAfterReturn(k, MAX_SEED - 1, ServiceLines)
  \/ \E i \in Slots : ProbeAnswered(i, MAX_SEED - 1)
  \/ \E i \in Slots : ProbeFailed(i)
  \/ \E i \in Slots : ProbeBackoffOver(i)
  \/ \E i \in Slots, o \in ConnectionOutcomes : PostCompleted(i, o, << "iVBOR" >>)
  \/ \E i \in Slots : RetryWaitOver(i)
  \/ \E i \in Slots : SaveCompleted(i, TRUE)
  \/ TickIdle(CONNECTION_TTL_MS)
SpecConnection == InitService /\ [][NextConnection]_vars

\* Envelopes with parameter bags of every kind: a prompt beside a seed, the
\* placeholder key alone, a width the schema rejects, a key the schema does
\* not know; the seed drawn at random is the least or the greatest.
MergeLines == {7, 11, 17, 18}
NextMerge ==
  \/ \E k \in MergeLines, s1, s2 \in RandomSeeds : StdinSingleLine(k, s1, s2, MaxLines)
  \/ \E k \in MergeLines, s1 \in RandomSeeds : StdinLineOfMany(k, s1, MaxLines)
  \/ \E i \in Slots : PostCompleted(i, "images", << "iVBOR" >>)
  \/ \E i \in Slots, ok \in BOOLEAN : SaveCompleted(i, ok)
SpecMerge == InitText /\ [][NextMerge]_vars

\* The placeholder key alone, in an envelope and in a loose object, beside an
\* envelope that carries the same text as its prompt, at once or 500 ms
\* apart, on a backend that answers.
PlaceholderLines == {5, 11, 19}
NextPlaceholder ==
  \/ \E k \in PlaceholderLines : StdinSingleLine(k, 0, 0, MaxLines)
  \/ \E k \in PlaceholderLines : StdinLineOfMany(k, 0, MaxLines)
  \/ \E i \in Slots : PostCompleted(i, "images", << "iVBOR" >>)
  \/ \E i \in Slots, ok \in BOOLEAN : SaveCompleted(i, ok)
  \/ Tick(500)
SpecPlaceholder == InitText /\ [][NextPlaceholder]_vars

\* Lines without a correlation id, with different prompts: a plain-text line
\* and a loose object, in one chunk or in chunks of their own, at the same
\* reading of the clock or 500 ms apart.
GeneratedLines == {2, 10}
NextGenerated ==
  \/ \E k \in GeneratedLines : StdinSingleLine(k, 0, 0, MaxLines)
  \/ \E k \in GeneratedLines : StdinLineOfMany(k, 0, MaxLines)
  \/ \E i \in Slots : PostCompleted(i, "images", << "iVBOR" >>)
  \/ \E i \in Slots, ok \in BOOLEAN : SaveCompleted(i, ok)
  \/ Tick(500)
SpecGenerated == InitText /\ [][NextGenerated]_vars

\* Every launch, of either revision of the bridge: the JavaScript one runs the
\* detection at module load, the TypeScript one (src/index.ts) declares
\* `let isPipeMode: boolean = false`, never assigns it and arms no initial
\* exit timer.  One envelope and
\* one tools/list line on a backend that answers, the clock advancing by the
\* exit delay.
LaunchLines == {5, 9}
InitLaunch ==
  /\ now = StartNow
  /\ ticks = 0
  /\ input = << >>
  /\ launch \in Launches
  /\ isPipeMode \in {detectPipeMode(launch), FALSE}
  /\ isProcessing = FALSE
  /\ exitDelayTimer \in
       IF isPipeMode \/ detectPipeMode(launch) THEN {NoTimer}
       ELSE {NoTimer, [armed |-> TRUE, kind |-> "initial",
                       due |-> StartNow + EXIT_DELAY_MS]}
  /\ processedRequestIds = << >>
  /\ processedPrompts = << >>
  /\ out = << >>
  /\ reqs = << >>
  /\ connectionEstablished = TRUE
  /\ baseUrl = DirectUrl
  /\ lastConnectionCheck = StartNow
  /\ connectionCheckInProgress = FALSE
  /\ connectionRetryTimeout = FALSE
  /\ exited = FALSE
NextLaunch ==
  \/ \E k \in LaunchLines : StdinSingleLine(k, 0, 0, MaxLines)
  \/ \E k \in LaunchLines : StdinLineOfMany(k, 0, MaxLines)
  \/ \E i \in Slots : PostCompleted(i, "images", << "iVBOR" >>)
  \/ \E i \in Slots, ok \in BOOLEAN : SaveCompleted(i, ok)
  \/ ExitTimerFires
  \/ Tick(EXIT_DELAY_MS)
SpecLaunch == InitLaunch /\ [][NextLaunch]_vars

\* Calls that may overlap on a backend that is reachable on the first
\* candidate base URL: every probe and every POST is answered, after any
\* delay, the one-second wait of a call that found a check in progress
\* ending before or after the answer.
ReachableLines == {5, 7, 18}
InitReachable == InitService /\ (connectionEstablished => baseUrl = DirectUrl)
NextReachable ==
  \/ \E k \in ReachableLines : StdinLineOfMany(k, MAX_SEED - 1, MaxLines)
  \/ \E i \in Slots : ProbeAnswered(i, MAX_SEED - 1)
  \/ \E i \in Slots : CheckWaitOver(i, MAX_SEED - 1)
  \/ \E i \in Slots : PostCompleted(i, "images", << "iVBOR" >>)
  \/ \E i \in Slots : SaveCompleted(i, TRUE)
SpecReachable == InitReachable /\ [][NextReachable]_vars

\* ------------------------------------------------------------- lifecycle
Reqs == 1..Len(reqs)

\* The lines written for correlation id `id` so far.
LinesFor(id) == {l \in 1..Len(out) : out[l].id = id}

\* C1: a request that passed the duplicate suppressor never has more than
\* one line written for it, and has exactly one when the process has run to
\* its end: no request is left without its line.
C1_ExactlyOneLine ==
  \A i \in Reqs :
    reqs[i].verdict = "accepted" =>
      /\ Cardinality(LinesFor(reqs[i].id)) <= 1
      /\ exited => Cardinality(LinesFor(reqs[i].id)) = 1

\* ----------------------------------------------------- generation client
\* C9: a generate() call for which every probe of every candidate base URL
\* failed returns the service-unavailable error, with the connection marked
\* not established, and has issued no POST.
C9_AllProbesFailIsUnavailable ==
  \A i \in Reqs :
    reqs[i].exhausted = 2 =>
      /\ reqs[i].result.returned
      /\ reqs[i].result.isError
      /\ reqs[i].result.errorMessage = UNAVAILABLE
      /\ ~reqs[i].estAtReturn
      /\ reqs[i].posts = 0

C9_Witness ==
  \E i \in Reqs :
    /\ reqs[i].exhausted = 2
    /\ reqs[i].pc = "done"
    /\ \E l \in LinesFor(reqs[i].id) : out[l].isError /\ out[l].text = UNAVAILABLE

\* C10: a generate() call one of whose POSTs was answered with a 4xx status
\* has issued exactly one POST and has returned an error result; it is
\* neither waiting to retry nor posting again.
C10_ClientErrorNotRetried ==
  \A i \in Reqs :
    reqs[i].clientError =>
      /\ reqs[i].posts = 1
      /\ reqs[i].result.returned
      /\ reqs[i].result.isError

\* -------------------------------------------------- duplicate suppressor
\* The invocations that passed the id check, in order.
Accepted(i) == reqs[i].verdict # "duplicate_id"

AcceptedReqs == SelectSeq(reqs, LAMBDA r : r.verdict # "duplicate_id")

\* Every id accepted so far, oldest first: the ids of the requests served
\* before the first modelled line (InitIds), then those of the modelled ones.
AcceptedLog ==
  HistoryIds(REQUEST_HISTORY_LIMIT) \o
    [p \in 1..Len(AcceptedReqs) |-> AcceptedReqs[p].id]

\* C2: of two generateImage envelopes with the same correlation id, the
\* second makes no generation call and writes nothing, and the first is
\* answered by exactly one line once it is done (and by none before).
C2_SameIdAnsweredOnce ==
  \A i \in Reqs :
    Accepted(i) =>
      /\ \A j \in Reqs :
           (j > i /\ reqs[j].id = reqs[i].id) =>
             /\ reqs[j].verdict = "duplicate_id"
             /\ reqs[j].pc = "skipped"
             /\ ~reqs[j].gen
             /\ reqs[j].posts = 0
      /\ Cardinality(LinesFor(reqs[i].id)) = IF reqs[i].pc = "done" THEN 1 ELSE 0

C2_Witness ==
  \E i, j \in Reqs :
    /\ i < j
    /\ reqs[i].id = reqs[j].id
    /\ reqs[i].line # reqs[j].line
    /\ Accepted(i) /\ reqs[i].pc = "done" /\ reqs[i].posts > 0
    /\ reqs[j].pc = "skipped"
    /\ Cardinality(LinesFor(reqs[i].id)) = 1

Inputs == 1..Len(input)

\* Chunk n carries a plain-text prompt: not blank, not JSON, no leading `{`.
IsPlainText(n) ==
  LET line == LineList[input[n].line]
  IN line.kind = "text" /\ ~IsBlank(line) /\ ~startsWith(line.chars, "{")

NormalizedPrompt(n) == toLowerCase(trim(LineList[input[n].line].chars))

\* The generation calls made for the chunks in S.
Calls(S) == {i \in Reqs : reqs[i].line \in S /\ reqs[i].gen}

\* C4: the same plain-text prompt submitted twice less than the window apart
\* makes exactly one generation call; more than the window apart, exactly two.
C4_PromptWindow ==
  \A m, n \in Inputs :
    (m < n /\ IsPlainText(m) /\ IsPlainText(n)
       /\ NormalizedPrompt(m) = NormalizedPrompt(n)) =>
      /\ input[n].at - input[m].at < PROMPT_WINDOW_MS =>
           Cardinality(Calls({m, n})) = 1
      /\ input[n].at - input[m].at > PROMPT_WINDOW_MS =>
           Cardinality(Calls({m, n})) = 2

\* C5: a plain-text line whose prompt was not submitted before makes exactly
\* one generation call, with parameters.prompt the trimmed line, and once the
\* backend has returned an image and it is saved, the one line written for
\* it is a success result whose content type is "image".
C5_FirstPlainTextGenerates ==
  \A n \in Inputs :
    (IsPlainText(n) /\ \A m \in 1..(n - 1) :
                         ~(IsPlainText(m) /\ NormalizedPrompt(m) = NormalizedPrompt(n))) =>
      /\ Cardinality(Calls({n})) = 1
      /\ \A i \in Calls({n}) :
           /\ reqs[i].params = [prompt |-> trim(LineList[input[n].line].chars)]
           /\ (reqs[i].pc = "done" /\ ~reqs[i].result.isError
                  /\ Len(reqs[i].imagePath) > 0) =>
                \A l \in LinesFor(reqs[i].id) :
                  out[l].form = "result" /\ out[l].ctype = "image"

\* C6: every invocation made for a plain-text line carries prompt = the line
\* trimmed as its only parameter and an id generated by the handler (the
\* clock reading at the line's arrival), and every plain-text line that the
\* 'line' handler does not drop as a repeated prompt has one.
C6_PlainTextNormalization ==
  \A n \in Inputs :
    IsPlainText(n) =>
      /\ \A i \in Reqs :
           reqs[i].line = n =>
             /\ reqs[i].passed = [prompt |-> trim(LineList[input[n].line].chars)]
             /\ DOMAIN reqs[i].passed = {"prompt"}
             /\ reqs[i].id = ToString(input[n].at)
      /\ (\A m \in 1..(n - 1) : ~IsPlainText(m)) =>
           Cardinality({i \in Reqs : reqs[i].line = n}) = 1

\* A padded line has been normalized: its prompt lost the padding.
C6_Witness ==
  \E i \in Reqs :
    /\ IsPlainText(reqs[i].line)
    /\ input[reqs[i].line].line = 1
    /\ reqs[i].passed.prompt = << "A", " ", "b" >>
    /\ reqs[i].id = ToString(StartNow)

\* ------------------------------------------------ loose JSON and envelopes
\* C7: the invocation made for the loose line {"prompt":"cat","seed":42}
\* carries both supplied fields as its parameters, and the parameters sent to
\* the backend carry seed 42.
C7_LooseFieldsKept ==
  \A i \in Reqs :
    LineList[input[reqs[i].line].line] = JsonLine([prompt |-> cat, seed |-> 42]) =>
      /\ reqs[i].passed = [prompt |-> cat, seed |-> 42]
      /\ reqs[i].posts > 0 => reqs[i].merged.seed = 42

\* Chunk n carries an envelope that invokes a tool other than generateImage.
IsOtherTool(n) ==
  LET line == LineList[input[n].line]
  IN /\ line.kind = "json"
     /\ IsEnvelope(line.val)
     /\ IsToolInvocation(line.val)
     /\ line.val.params.tool # "generateImage"

CausedBy(n) == {l \in 1..Len(out) : out[l].cause = n}

\* C8: an envelope whose params.tool is not generateImage is answered, and
\* only answered, by error envelopes with code -32601 and the request's own
\* id, and no invocation of the generation path is made for it.
C8_UnknownToolIsMethodNotFound ==
  \A n \in Inputs :
    IsOtherTool(n) =>
      /\ CausedBy(n) # {}
      /\ \A l \in CausedBy(n) :
           /\ out[l].form = "error"
           /\ out[l].code = METHOD_NOT_FOUND
           /\ out[l].id = LineList[input[n].line].val.id
      /\ \A i \in Reqs : reqs[i].line # n

C8_Witness ==
  \E n \in Inputs :
    /\ IsOtherTool(n)
    /\ \E l \in CausedBy(n) : out[l].code = 0 - 32601 /\ out[l].id = "x1"

\* ------------------------------------------------------------ retry loop
\* C11: a call whose every POST is answered with a 5xx status issues
\* maxRetries POSTs, never one more, and then returns the error result that
\* carries the upstream server's failure, which is the one line written for
\* the request.
C11_ServerErrorsExhaustRetries ==
  \A i \in Reqs :
    LET r == reqs[i]
    IN /\ r.allServerErrors => r.posts <= maxRetries
       /\ (r.allServerErrors /\ r.result.returned) =>
            /\ r.posts = maxRetries
            /\ r.result.isError
            /\ r.result.errorMessage = ErrorMessage("http5xx")
            /\ \A l \in LinesFor(r.id) :
                 out[l].isError /\ out[l].text = ErrorMessage("http5xx")
            /\ r.pc = "done" => LinesFor(r.id) # {}

C11_Witness ==
  \E i \in Reqs :
    /\ reqs[i].allServerErrors
    /\ reqs[i].result.returned
    /\ reqs[i].posts = maxRetries
    /\ reqs[i].pc = "done"

\* C12: a call that received a 2xx answer without images returns the error
\* result "no images were generated", and no success envelope is written
\* for its request.
C12_EmptyResponseIsError ==
  \A i \in Reqs :
    LET r == reqs[i]
    IN (r.emptySeen /\ r.result.returned) =>
         /\ r.result.isError
         /\ r.result.errorMessage = NO_IMAGES
         /\ \A l \in LinesFor(r.id) : out[l].isError

\* ------------------------------------------------------ silent duplicates
\* C13: an invocation rejected as a duplicate, by correlation id or by
\* prompt fingerprint, writes nothing: the lines carrying an id are at most
\* as many as the invocations with that id that were not rejected.
C13_DuplicateWritesNothing ==
  \A i \in Reqs :
    reqs[i].verdict # "accepted" =>
      Cardinality(LinesFor(reqs[i].id)) <=
        Cardinality({j \in Reqs : reqs[j].id = reqs[i].id
                                  /\ reqs[j].verdict = "accepted"})

\* ------------------------------------------------------------------ save
\* C14: a request whose generation returned an image is answered with the
\* success envelope carrying the image data, whether or not the image file
\* could be written; no error response is written in its place.
C14_SaveFailureStillSucceeds ==
  \A i \in Reqs :
    LET r == reqs[i]
    IN (r.pc = "done" /\ r.result.returned /\ ~r.result.isError
        /\ Len(r.result.imageData) > 0) =>
         /\ LinesFor(r.id) # {}
         /\ \A l \in LinesFor(r.id) :
              /\ ~out[l].isError
              /\ out[l].ctype = "image"
              /\ out[l].data = r.result.imageData

\* ------------------------------------------------------ failure isolation
\* The request of invocation i failed: the line written for it is an error.
Failed(i) ==
  /\ reqs[i].verdict = "accepted"
  /\ \E l \in LinesFor(reqs[i].id) : out[l].form = "error" \/ out[l].isError

\* C15: a failed request does not end the process before the lines read
\* after it are answered: when the process has exited, every request that
\* was taken up from a later line has its own response.
C15_FailureDoesNotBlockLaterLines ==
  \A i, j \in Reqs :
    (Failed(i) /\ reqs[j].line > reqs[i].line /\ reqs[j].verdict = "accepted") =>
      (exited => LinesFor(reqs[j].id) # {})

\* ------------------------------------------------------------ exit timer
\* C16: in pipe mode the exit timer is never armed and the process never
\* exits, however long it stays idle and whatever completed; a process that
\* has exited by the timer runs in standalone mode.
C16_PipeModeNeverExits ==
  /\ isPipeMode => (~exitDelayTimer.armed /\ ~exited)
  /\ exited => ~isPipeMode

C16_Witness ==
  /\ isPipeMode
  /\ now >= StartNow + EXIT_DELAY_MS
  /\ \E i \in Reqs : reqs[i].pc = "done"
  /\ \A i \in Reqs : reqs[i].pc \in {"done", "skipped"}

\* Invocation i is in flight: it was taken up and has not been answered.
InFlight(i) == reqs[i].pc \notin {"done", "skipped"}

\* C17: in standalone mode the exit timer is armed only while no request is
\* in flight, so it cannot fire while a generation is outstanding.
C17_TimerOnlyWhenIdle ==
  (~isPipeMode /\ \E i \in Reqs : InFlight(i)) =>
    (~exitDelayTimer.armed /\ ~exited)

\* ------------------------------------------------------- error envelopes
\* C18: every line that reports a failed request, a failed generation
\* included, is a JSON-RPC error envelope: it has an `error` member with a
\* numeric code, the failure kind and the message, and no `result` member.
C18_FailuresAreErrorEnvelopes ==
  \A l \in 1..Len(out) :
    (out[l].form = "error" \/ out[l].isError) =>
      /\ out[l].form = "error"
      /\ out[l].code < 0
      /\ out[l].message # ""
      /\ out[l].text # ""

\* -------------------------------------------------------- correlation id
\* The correlation id of the request read as chunk n: the id member of the
\* line when it has one, else the id generated for it when it was read.
GeneratedIds(n) ==
  {ToString(input[n].at), "error-" \o ToString(input[n].at)}

DecodeImageData(data) ==
  BufferFromBase64(Characters(IF startsWith(data, PngPrefix) THEN Tail(data)
                              ELSE data))

\* C20: the image data of a success envelope decodes to the bytes that were
\* written to the file named by its imageSavedPath.
C20_EnvelopeDecodesToFile ==
  \A i \in Reqs : \A l \in LinesFor(reqs[i].id) :
    (out[l].ctype = "image" /\ out[l].saved = reqs[i].imagePath) =>
      DecodeImageData(out[l].data) = reqs[i].file

\* -------------------------------------------------------- classification
\* C21: a non-empty line that is not JSON is taken as a plain-text prompt,
\* whatever its first character: no error response is written for it, and
\* the first such line is handed to the generation path.
C21_ParseFailureIsPlainText ==
  \A n \in Inputs :
    LET line == LineList[input[n].line]
    IN (line.kind = "text" /\ ~IsBlank(line)) =>
         /\ \A l \in CausedBy(n) : out[l].form # "error"
         /\ n = 1 => \E i \in Reqs : reqs[i].line = n

C23_EvictsOldestTimestamp ==
  [][\A i \in 1..Len(processedPrompts) :
       LET e == processedPrompts[i]
       IN (PromptIndex(processedPrompts', e.prompt) = 0
           /\ ~(now - e.ts > PROMPT_HISTORY_EXPIRE_MS)) =>
            \A j \in 1..Len(processedPrompts') : processedPrompts'[j].ts >= e.ts]_vars

\* --------------------------------------------------------- prompt window
\* Chunk n carries a generateImage envelope with a prompt.
IsPromptEnvelope(n) ==
  LET line == LineList[input[n].line]
  IN /\ line.kind = "json"
     /\ IsEnvelope(line.val)
     /\ IsToolInvocation(line.val)
     /\ line.val.params.tool = "generateImage"
     /\ Has(line.val.params.parameters, "prompt")

EnvelopeId(n) == LineList[input[n].line].val.id

EnvelopePrompt(n) ==
  toLowerCase(trim(LineList[input[n].line].val.params.parameters.prompt))

EnvelopeParameters(n) == DOMAIN LineList[input[n].line].val.params.parameters

\* Chunk n comes less than the window after chunk m, which carried the same
\* prompt alone under another id.
RepeatsPrompt(m, n) ==
  /\ m < n
  /\ IsPromptEnvelope(m) /\ IsPromptEnvelope(n)
  /\ EnvelopeId(m) # EnvelopeId(n)
  /\ ~includesRetry(EnvelopeId(m)) /\ ~includesRetry(EnvelopeId(n))
  /\ EnvelopePrompt(m) = EnvelopePrompt(n)
  /\ input[n].at - input[m].at < PROMPT_WINDOW_MS

\* C24: the window runs from the last sighting of the prompt: a submission
\* that comes less than the window after the previous submission of the
\* same prompt makes no generation call, also when the first submission of
\* the prompt lies further back than the window.
C24_WindowFromLastSighting ==
  \A m, n \in Inputs :
    (RepeatsPrompt(m, n) /\ EnvelopeParameters(m) = {"prompt"}
       /\ EnvelopeParameters(n) = {"prompt"}) =>
      Calls({n}) = {}

\* C25: of two requests with different ids and the same normalized prompt
\* that arrive within the window, neither one a retry, the second makes no
\* generation call, whatever other parameters the two carry.
C25_SamePromptAnyParameters ==
  \A m, n \in Inputs :
    RepeatsPrompt(m, n) => Calls({n}) = {}

\* ----------------------------------------------- connection establishment
\* C26: the candidates are probed in the order direct address, loopback
\* alias, alternate endpoint; a candidate is probed only when every probe of
\* the ones before it has failed, the call gives up only when all three have
\* failed, and the POST goes to the first candidate that answered.
C26_CandidatesInOrder ==
  LET candidates == << DirectUrl, LocalhostUrl, ProxyUrl >>
  IN \A i \in Reqs :
       LET r == reqs[i]
       IN /\ r.pc \in {"probe", "backoff"} =>
               /\ r.exhausted = r.stage - 1
               /\ baseUrl = candidates[r.stage]
          /\ (r.posts > 0 /\ r.exhausted > 0) => r.postUrl = candidates[r.exhausted + 1]
          /\ (r.result.returned /\ r.result.errorMessage = UNAVAILABLE) =>
               r.exhausted = Len(candidates)

\* C27: during one connection establishment at most PROBE_ATTEMPTS probe
\* requests are sent to one candidate base URL.
C27_ProbesPerCandidate ==
  \A i \in Reqs : reqs[i].probes <= PROBE_ATTEMPTS

\* C28: a call issues its first POST only on a connection that was verified
\* less than the TTL before: a call that finds the cached state older than
\* that probes again first.
C28_StaleConnectionIsProbed ==
  \A i \in Reqs :
    (reqs[i].pc = "post" /\ reqs[i].k = 1) =>
      (reqs[i].postDue - (POST_TIMEOUT_MS + POST_TIMEOUT_STEP_MS))
        - lastConnectionCheck < CONNECTION_TTL_MS

\* The message of the attempt of call i that just ended.
AttemptMessage(r) ==
  IF r.result.returned THEN r.result.errorMessage ELSE r.lastError

C30_RepostOnlyAfterFailure ==
  [][\A i \in 1..Len(reqs) :
       (reqs[i].posts >= 1 /\ reqs'[i].posts > reqs[i].posts) =>
         reqs'[i].lastError \in
           {ErrorMessage(o) : o \in {"http5xx", "ECONNREFUSED", "ETIMEDOUT",
                                     "ECONNABORTED"}}]_vars

\* ---------------------------------------------------- parameter resolution
\* C31: in the parameters sent with the POST of a call, every key the caller
\* supplied (the placeholder key random_string aside) carries the caller's
\* value, a key the caller did not supply carries the default or, for the
\* seed, the number drawn, and the prompt is the default prompt only when the
\* caller supplied neither a prompt nor the placeholder.
C31_CallerValuesSent ==
  \A i \in Reqs :
    reqs[i].posts > 0 =>
      LET caller == reqs[i].passed
          sent == reqs[i].merged
      IN /\ \A key \in (DOMAIN caller) \ {"random_string"} :
              Has(sent, key) /\ sent[key] = caller[key]
         /\ \A key \in (DOMAIN defaultParams) \ (DOMAIN caller) :
              key # "prompt" => sent[key] = defaultParams[key]
         /\ sent.prompt = defaultParams.prompt =>
              ~Has(caller, "prompt") /\ ~Has(caller, "random_string")

\* Invocation i was made with a bag whose only key is random_string, with a
\* non-empty value.
OnlyPlaceholder(i) ==
  /\ DOMAIN reqs[i].passed = {"random_string"}
  /\ Len(reqs[i].passed.random_string) > 0

\* C32: an invocation whose bag holds only random_string, once past the id
\* check, works on the bag {prompt: that value}; the value, normalized, is
\* what the prompt check looked up and recorded (the invocation was rejected
\* as a repeated prompt or the prompt table holds it); and the parameters of
\* its POST carry the value as prompt and no key random_string.
C32_PlaceholderBecomesPrompt ==
  \A i \in Reqs :
    (OnlyPlaceholder(i) /\ reqs[i].verdict # "duplicate_id") =>
      LET value == reqs[i].passed.random_string
      IN /\ reqs[i].params = [prompt |-> value]
         /\ \/ reqs[i].verdict = "duplicate_prompt"
            \/ \E e \in 1..Len(processedPrompts) :
                 processedPrompts[e].prompt = toLowerCase(trim(value))
         /\ reqs[i].posts > 0 =>
              /\ reqs[i].merged.prompt = value
              /\ ~Has(reqs[i].merged, "random_string")

\* A placeholder-only invocation was rejected as a repeat of an earlier
\* prompt, and another one went to the backend with its value as the prompt.
C32_Witness ==
  \E i, j \in Reqs :
    /\ OnlyPlaceholder(i) /\ reqs[i].verdict = "duplicate_prompt"
    /\ OnlyPlaceholder(j) /\ reqs[j].posts > 0
    /\ reqs[j].merged.prompt = cat

\* ------------------------------------------------------------ pass-through
\* Line k is an envelope whose method is not mcp.invoke.
IsOtherMethod(k) ==
  /\ LineList[k].kind = "json"
  /\ IsEnvelope(LineList[k].val)
  /\ LineList[k].val.method # "mcp.invoke"

\* C33: the handling of a chunk that carries an envelope whose method is not
\* mcp.invoke writes that line, as it was read, once and nothing else, makes
\* no invocation of the generation path, and ends in processComplete (not
\* processing; the exit timer re-armed in standalone mode, none in pipe
\* mode); no later step writes anything more for the chunk.
C33_OtherMethodForwardedOnce ==
  [][/\ \A n \in 1..Len(input') :
          (n > Len(input) /\ IsOtherMethod(input'[n].line)) =>
            /\ out' = Append(out, RawLine(input'[n].line, n))
            /\ reqs' = reqs
            /\ ~isProcessing'
            /\ exitDelayTimer' =
                 IF isPipeMode THEN NoTimer
                 ELSE [armed |-> TRUE, kind |-> "complete",
                       due |-> now + EXIT_DELAY_MS]
     /\ \A n \in 1..Len(input) :
          IsOtherMethod(input[n].line) =>
            {l \in 1..Len(out') : out'[l].cause = n} = CausedBy(n)]_vars

\* A tools/list envelope that came alone in its chunk, seen by both handlers,
\* was written back once.
C33_Witness ==
  \E n \in Inputs :
    /\ IsOtherMethod(input[n].line)
    /\ input[n].alone
    /\ \E l \in CausedBy(n) : out[l].form = "raw" /\ out[l].raw = 9
    /\ Len(out) > 1

\* ----------------------------------------------------------- generated ids
\* Chunk n carries a request without a correlation id of its own: a
\* plain-text prompt or a JSON object without id.
HasGeneratedId(n) ==
  \/ IsPlainText(n)
  \/ LineList[input[n].line].kind = "json" /\ ~Has(LineList[input[n].line].val, "id")

\* C34: the invocations made for two different input lines that both got a
\* generated id carry different ids, and neither is rejected as a repeated
\* id.
C34_GeneratedIdsUnique ==
  \A i, j \in Reqs :
    (reqs[i].line # reqs[j].line
       /\ HasGeneratedId(reqs[i].line) /\ HasGeneratedId(reqs[j].line)) =>
      /\ reqs[i].id # reqs[j].id
      /\ reqs[i].verdict # "duplicate_id"

\* ---------------------------------------------------------- mode selection
\* C35: the process is in pipe mode exactly when it was started with standard
\* input or standard output not a terminal or with
\* DRAW_THINGS_FORCE_STAY_ALIVE "true", and a process started so never exits.
C35_PipeModeSelected ==
  LET continuous == \/ ~launch.stdinIsTTY \/ ~launch.stdoutIsTTY
                    \/ launch.forceStayAlive
  IN /\ isPipeMode <=> continuous
     /\ continuous => ~exited

\* ------------------------------------------------------------- idle exit
\* C36: in standalone mode, once a line has been received and while the
\* process runs with no request in flight, the exit timer is armed, also
\* after a line that was rejected as a repeated correlation id.
C36_IdleTimerArmed ==
  (~isPipeMode /\ ~exited /\ Len(input) > 0
     /\ \A i \in Reqs : ~InFlight(i)) =>
    exitDelayTimer.armed

\* --------------------------------------------------------- dropped input
\* Chunk n was rejected as a duplicate: an invocation made for it was
\* rejected by id or by prompt, or it is a plain-text line that the 'line'
\* handler dropped as a repeated prompt.
RejectedAsDuplicate(n) ==
  \/ \E i \in Reqs : reqs[i].line = n /\ reqs[i].verdict # "accepted"
  \/ IsPlainText(n) /\ \A i \in Reqs : reqs[i].line # n

\* C37: every chunk whose line is not blank and was not rejected as a
\* duplicate has a line written for it once nothing is in flight for it; so
\* a JSON object that is no envelope and has neither prompt nor parameters
\* is answered (with an error response) by the step that reads it.
C37_NoLineDropped ==
  \A n \in Inputs :
    (/\ ~IsBlank(LineList[input[n].line])
     /\ ~RejectedAsDuplicate(n)
     /\ \A i \in Reqs : reqs[i].line = n => ~InFlight(i)) =>
      CausedBy(n) # {}

\* ------------------------------------------------------------ two handlers
\* C38: for every chunk, a single-line chunk seen by both the 'line' and the
\* 'data' handler included, at most one line is written and at most one
\* generation call is made.
C38_OneResponsePerLine ==
  \A n \in Inputs :
    /\ Cardinality(CausedBy(n)) <= 1
    /\ Cardinality(Calls({n})) <= 1

\* ------------------------------------------------------- overlapping calls
\* C39: on a backend that answers every probe of the first candidate base
\* URL, no call returns the service-unavailable result, every POST goes to
\* that base URL, and the base URL is not changed while a call is probing it.
C39_ReachableBackendIsUsed ==
  /\ \A i \in Reqs :
       /\ ~(reqs[i].result.returned /\ reqs[i].result.errorMessage = UNAVAILABLE)
       /\ reqs[i].posts > 0 => reqs[i].postUrl = DirectUrl
  /\ (\E i \in Reqs : reqs[i].pc = "probe" /\ reqs[i].stage = 1) =>
       baseUrl = DirectUrl
====
